---- MODULE Spec2Model ----
(***************************************************************************)
(* A model of synd/models/base.py: the backmapper registry of SynDModel,   *)
(* the generate_trajectories generator pipeline, generate_trajectory, and  *)
(* the pickle-based persistence of _SerializableMixin.                     *)
(***************************************************************************)
EXTENDS Integers, Sequences, FiniteSets, TLC

----------------------------------------------------------------------------
(* Bounds of the model and the finite universes the inputs are drawn from. *)

\* Largest number of initial states passed to one call.
MaxStates == 2

\* Python's None, and "no exception".
None == "None"
NoExc == "none"

\* Names under which callers register backmappers.
Names == {"default", "alt"}

\* The callables callers register: two module-level functions and a lambda.
Fns == {"reverse", "shift", "lam_head"}

\* States of the dynamical system the concrete models run on.
SysStates == {0, 1}

SeqsUpTo(S, n) == UNION {[1..k -> S] : k \in 0..n}

----------------------------------------------------------------------------
(* Classes.  SynDModel is the abstract base; the others are concrete       *)
(* models, plus one class that is unrelated to SynDModel.                  *)

ModelClasses == {"LazyModel", "EagerModel", "SkipModel", "FaultyModel",
                 "EagerFaultyModel", "EagerStopModel"}
AllClasses == ModelClasses \cup {"SynDModel", "Unrelated"}

\* The proper and improper base classes of a class (its MRO, as a set).
Bases(c) ==
    CASE c = "LazyModel" -> {"LazyModel", "SynDModel"}
      [] c = "EagerModel" -> {"EagerModel", "SynDModel"}
      [] c = "SkipModel" -> {"SkipModel", "LazyModel", "SynDModel"}
      [] c = "FaultyModel" -> {"FaultyModel", "SynDModel"}
      [] c = "EagerFaultyModel" -> {"EagerFaultyModel", "SynDModel"}
      [] c = "EagerStopModel" -> {"EagerStopModel", "SynDModel"}
      [] c = "SynDModel" -> {"SynDModel"}
      [] OTHER -> {c}

\* isinstance(obj, c)
isinstance(obj, c) == c \in Bases(obj.cls)

----------------------------------------------------------------------------
(* The backmapper registry: self._backmappers, a dict from name to         *)
(* callable, modelled as a function whose domain is the set of keys.       *)

EmptyDict == [n \in {} |-> None]

DictSet(d, k, v) == [n \in DOMAIN d \cup {k} |-> IF n = k THEN v ELSE d[n]]
DictPop(d, k) == [n \in DOMAIN d \ {k} |-> d[n]]
DictGet(d, k) == IF k \in DOMAIN d THEN d[k] ELSE None

\* A call's outcome: the exception raised (NoExc when it returns), the
\* object after the call, and the value returned.
Outcome(e, s, r) == [exc |-> e, self |-> s, ret |-> r]

\* Faulty variant: no check of line 104, the entry is overwritten.
add_backmapper_overwrite(self, backmapper, name) ==
    Outcome(NoExc, [self EXCEPT !.backmappers = DictSet(@, name, backmapper)], None)

add_backmapper(self, backmapper, name) ==
    IF name \in DOMAIN self.backmappers
    THEN Outcome("ValueError", self, None)
    ELSE Outcome(NoExc, [self EXCEPT !.backmappers = DictSet(@, name, backmapper)], None)

remove_backmapper(self, name) ==
    IF name \notin DOMAIN self.backmappers
    THEN Outcome("ValueError", self, None)
    ELSE Outcome(NoExc, [self EXCEPT !.backmappers = DictPop(@, name)], None)

\* Faulty variant: the lookup takes the entry out of the registry.
get_backmapper_pop(self, name) ==
    IF name \notin DOMAIN self.backmappers
    THEN Outcome("ValueError", self, None)
    ELSE Outcome(NoExc, [self EXCEPT !.backmappers = DictPop(@, name)],
                 self.backmappers[name])

\* The code.
get_backmapper(self, name) ==
    IF name \notin DOMAIN self.backmappers
    THEN Outcome("ValueError", self, None)
    ELSE Outcome(NoExc, self, self.backmappers[name])

\* The default_backmapper property: its getter and its setter.
default_backmapper_get(self) ==
    Outcome(NoExc, self, DictGet(self.backmappers, "default"))

\* Faulty variant: the setter assigns the entry without the check.
default_backmapper_set_overwrite(self, value) ==
    add_backmapper_overwrite(self, value, "default")

default_backmapper_set(self, value) == add_backmapper(self, value, "default")

\* SynDModel.__init__ as run by the constructor of concrete class c.
init(c, default_backmapper) ==
    LET self == [cls |-> c, backmappers |-> EmptyDict]
    IN IF default_backmapper # None
       THEN default_backmapper_set(self, default_backmapper).self
       ELSE self

\* A second instance beside a first one.  _backmappers is a reference to a
\* dict object: `shares` says that the second instance holds the very dict
\* object the first one holds, `from` how the second instance was made.
NoPeer == [cls |-> None, backmappers |-> EmptyDict, shares |-> FALSE,
           from |-> None]

\* A store into, or a pop from, the dict of `self` is seen by p when p
\* holds the same dict object.
Mirror(p, self) ==
    IF p.shares THEN [p EXCEPT !.backmappers = self.backmappers] ELSE p

\* __init__ for a second instance while `first` exists.
\* Faulty variant: _backmappers = {} stands in the class body, so that
\* every instance holds the one dict object of the class.
new_instance_class_dict(c, default_backmapper, first) ==
    [cls |-> c, backmappers |-> first.backmappers, shares |-> TRUE,
     from |-> "init"]

\* The code: line 91 evaluates {} in each call, a new dict object.
new_instance(c, default_backmapper, first) ==
    [cls |-> c, backmappers |-> init(c, default_backmapper).backmappers,
     shares |-> FALSE, from |-> "init"]

----------------------------------------------------------------------------
(* Trajectories are sequences of integers.  Backmappers are unary          *)
(* callables on trajectories; a call returns or raises.                    *)

Result(e, r) == [exc |-> e, ret |-> r]

Reverse(t) == [i \in 1..Len(t) |-> t[Len(t) + 1 - i]]

\* backmapper(traj) for each callable of Fns:
\*   reverse  = def reverse(t): return t[::-1]
\*   shift    = def shift(t): return [x + 10 for x in t]
\*   lam_head = lambda t: [t[0]]        (IndexError on an empty trajectory)
Apply(f, t) ==
    CASE f = "reverse" -> Result(NoExc, Reverse(t))
      [] f = "shift" -> Result(NoExc, [i \in 1..Len(t) |-> t[i] + 10])
      [] f = "lam_head" -> IF Len(t) = 0
                           THEN Result("IndexError", <<>>)
                           ELSE Result(NoExc, <<t[1]>>)

----------------------------------------------------------------------------
(* Concrete models: implementations of generate_unmapped_trajectories.     *)

\* The raw trajectory of `length` steps from state s.
Traj(s, length) == [i \in 1..length |-> s + 2 * (i - 1)]

\* What the implementation of class c produces for one initial state:
\* a sequence of zero or one items, each a trajectory or a raised error.
\*   LazyModel, EagerModel: one trajectory per initial state;
\*   SkipModel: no trajectory for initial state 0;
\*   FaultyModel, EagerFaultyModel: raise RuntimeError on initial state 1.
\*   EagerStopModel: an exhausted inner next() lets StopIteration out of
\*   the call on initial state 1.
RawFor(c, length, s) ==
    CASE c = "SkipModel" /\ s = 0 -> <<>>
      [] c \in {"FaultyModel", "EagerFaultyModel"} /\ s = 1
           -> <<Result("RuntimeError", <<>>)>>
      [] c = "EagerStopModel" /\ s = 1 -> <<Result("StopIteration", <<>>)>>
      [] OTHER -> <<Result(NoExc, Traj(s, length))>>

\* The items the implementation produces over initial_states, in order,
\* ending at the first one that raises.
RECURSIVE RawItems(_, _, _)
RawItems(c, length, initial_states) ==
    IF initial_states = <<>> THEN <<>>
    ELSE LET first == RawFor(c, length, Head(initial_states))
         IN IF first # <<>> /\ first[1].exc # NoExc
            THEN first
            ELSE first \o RawItems(c, length, Tail(initial_states))

\* EagerModel, EagerFaultyModel and EagerStopModel compute and return a
\* list; the others are generator functions, which compute an item when it
\* is requested.
IsEager(c) == c \in {"EagerModel", "EagerFaultyModel", "EagerStopModel"}

----------------------------------------------------------------------------
(* generate_trajectories is a generator function: calling it creates a     *)
(* generator object and runs none of its body; next() runs the body to the *)
(* next yield.                                                             *)

\* A generator object: pc is where its frame stands ("created": not
\* started, "suspended": at the yield of line 142, "exhausted": returned,
\* "raised": ended by an exception); backmapper is its local variable of that name; pos counts the
\* raw items its for loop has taken.  requested, invoked, made and mapcalls
\* record the requested name, whether generate_unmapped_trajectories was
\* called, how many raw items the concrete model has computed, and how
\* many times the backmapper was called.
NoGen == [pc |-> "none", length |-> 0, initial_states |-> <<>>,
          backmapper |-> None, requested |-> None, pos |-> 0,
          invoked |-> FALSE, made |-> 0, mapcalls |-> 0]

\* What a call on a generator gives: the exception raised (NoExc when it
\* returns), the generator afterwards, the trajectory returned or yielded.
GenStep(e, g, r) == [exc |-> e, gen |-> g, ret |-> r]

NewGen(length, initial_states, backmapper) ==
    [NoGen EXCEPT !.pc = "created", !.length = length,
                  !.initial_states = initial_states,
                  !.backmapper = backmapper, !.requested = backmapper]

\* The call generate_trajectories(...), lines 130-136: the body holds a
\* yield, so the call binds the arguments and returns the generator.
generate_trajectories(self, length, initial_states, backmapper) ==
    GenStep(NoExc, NewGen(length, initial_states, backmapper), <<>>)

\* The frame ends: by running off the end of the loop or by raising.
Exhaust(g) == [g EXCEPT !.pc = "exhausted"]
Raise(g) == [g EXCEPT !.pc = "raised"]

\* Lines 139-142, one turn of the for loop: take the next raw item, map it,
\* yield it.
\* Faulty variant: the backmapper is never applied.
LoopTurn_unmapped(self, g) ==
    LET items == RawItems(self.cls, g.length, g.initial_states)
        k == g.pos + 1
    IN IF k > Len(items)
       THEN GenStep("StopIteration", Exhaust(g), <<>>)
       ELSE LET g1 == [g EXCEPT !.pos = k,
                                !.made = IF @ < k THEN k ELSE @]
            IN IF items[k].exc # NoExc
               THEN GenStep(items[k].exc, Raise(g1), <<>>)
               ELSE GenStep(NoExc, [g1 EXCEPT !.pc = "suspended"], items[k].ret)

\* Faulty variant: the loop ends after its first yield.
LoopTurn_once(self, g) ==
    LET items == RawItems(self.cls, g.length, g.initial_states)
        k == g.pos + 1
    IN IF k > Len(items) \/ k > 1
       THEN GenStep("StopIteration", Exhaust(g), <<>>)
       ELSE LET g1 == [g EXCEPT !.pos = k,
                                !.made = IF @ < k THEN k ELSE @]
            IN IF items[k].exc # NoExc
               THEN GenStep(items[k].exc, Raise(g1), <<>>)
               ELSE IF g1.backmapper # None
                    THEN LET a == Apply(g1.backmapper, items[k].ret)
                             g2 == [g1 EXCEPT !.mapcalls = @ + 1]
                         IN IF a.exc # NoExc
                            THEN GenStep(a.exc, Raise(g2), <<>>)
                            ELSE GenStep(NoExc, [g2 EXCEPT !.pc = "suspended"], a.ret)
                    ELSE GenStep(NoExc, [g1 EXCEPT !.pc = "suspended"], items[k].ret)

\* Faulty variant: the name is looked up again in every turn of the loop.
LoopTurn_rebinding(self, g) ==
    LET items == RawItems(self.cls, g.length, g.initial_states)
        k == g.pos + 1
        r == IF g.requested # None
             THEN get_backmapper(self, g.requested)
             ELSE Outcome(NoExc, self, None)
    IN IF k > Len(items)
       THEN GenStep("StopIteration", Exhaust(g), <<>>)
       ELSE LET g1 == [g EXCEPT !.pos = k,
                                !.made = IF @ < k THEN k ELSE @]
            IN IF items[k].exc # NoExc
               THEN GenStep(items[k].exc, Raise(g1), <<>>)
               ELSE IF r.exc # NoExc
               THEN GenStep(r.exc, Raise(g1), <<>>)
               ELSE IF r.ret # None
                    THEN LET a == Apply(r.ret, items[k].ret)
                             g2 == [g1 EXCEPT !.mapcalls = @ + 1, !.backmapper = r.ret]
                         IN IF a.exc # NoExc
                            THEN GenStep(a.exc, Raise(g2), <<>>)
                            ELSE GenStep(NoExc, [g2 EXCEPT !.pc = "suspended"], a.ret)
                    ELSE GenStep(NoExc, [g1 EXCEPT !.pc = "suspended"], items[k].ret)

\* Faulty variant: a failing backmapper is caught and the raw trajectory
\* is yielded in place of the mapped one.
LoopTurn_suppress(self, g) ==
    LET items == RawItems(self.cls, g.length, g.initial_states)
        k == g.pos + 1
    IN IF k > Len(items)
       THEN GenStep("StopIteration", Exhaust(g), <<>>)
       ELSE LET g1 == [g EXCEPT !.pos = k,
                                !.made = IF @ < k THEN k ELSE @]
            IN IF items[k].exc # NoExc
               THEN GenStep(items[k].exc, Raise(g1), <<>>)
               ELSE IF g1.backmapper # None
                    THEN LET a == Apply(g1.backmapper, items[k].ret)
                             g2 == [g1 EXCEPT !.mapcalls = @ + 1]
                         IN IF a.exc # NoExc
                            THEN GenStep(NoExc, [g2 EXCEPT !.pc = "suspended"],
                                         items[k].ret)
                            ELSE GenStep(NoExc, [g2 EXCEPT !.pc = "suspended"], a.ret)
                    ELSE GenStep(NoExc, [g1 EXCEPT !.pc = "suspended"], items[k].ret)

\* The code.
LoopTurn(self, g) ==
    LET items == RawItems(self.cls, g.length, g.initial_states)
        k == g.pos + 1
    IN IF k > Len(items)
       THEN GenStep("StopIteration", Exhaust(g), <<>>)
       ELSE LET g1 == [g EXCEPT !.pos = k,
                                !.made = IF @ < k THEN k ELSE @]
            IN IF items[k].exc # NoExc
               THEN GenStep(items[k].exc, Raise(g1), <<>>)
               ELSE IF g1.backmapper # None
                    THEN LET a == Apply(g1.backmapper, items[k].ret)
                             g2 == [g1 EXCEPT !.mapcalls = @ + 1]
                         IN IF a.exc # NoExc
                            THEN GenStep(a.exc, Raise(g2), <<>>)
                            ELSE GenStep(NoExc, [g2 EXCEPT !.pc = "suspended"], a.ret)
                    ELSE GenStep(NoExc, [g1 EXCEPT !.pc = "suspended"], items[k].ret)

\* Line 139, the call self.generate_unmapped_trajectories(...): an eager
\* implementation computes every item in the call (and raises there if one
\* fails); a lazy one only creates its generator.
\* Faulty variant: the raw trajectories are collected into a list first.
Delegate_materialize(self, g) ==
    LET items == RawItems(self.cls, g.length, g.initial_states)
        g1 == [g EXCEPT !.invoked = TRUE]
    IN IF items # <<>> /\ items[Len(items)].exc # NoExc
       THEN GenStep(items[Len(items)].exc,
                    Raise([g1 EXCEPT !.made = Len(items)]), <<>>)
       ELSE GenStep(NoExc, [g1 EXCEPT !.made = Len(items)], <<>>)

\* The code.
Delegate(self, g) ==
    LET items == RawItems(self.cls, g.length, g.initial_states)
        g1 == [g EXCEPT !.invoked = TRUE]
    IN IF IsEager(self.cls)
       THEN IF items # <<>> /\ items[Len(items)].exc # NoExc
            THEN GenStep(items[Len(items)].exc,
                         Raise([g1 EXCEPT !.made = Len(items)]), <<>>)
            ELSE GenStep(NoExc, [g1 EXCEPT !.made = Len(items)], <<>>)
       ELSE GenStep(NoExc, g1, <<>>)

\* The start of the body, lines 137-139, then the first loop turn.
\* Faulty variant: line 139 runs before lines 137-138.
Start_delegate_first(self, g) ==
    LET d == Delegate(self, g)
        r == IF g.backmapper # None
             THEN get_backmapper(self, g.backmapper)
             ELSE Outcome(NoExc, self, None)
    IN IF d.exc # NoExc THEN d
       ELSE IF r.exc # NoExc THEN GenStep(r.exc, Raise(d.gen), <<>>)
       ELSE LoopTurn(self, [d.gen EXCEPT !.backmapper = r.ret])

\* The code.
Start(self, g) ==
    LET r == IF g.backmapper # None
             THEN get_backmapper(self, g.backmapper)
             ELSE Outcome(NoExc, self, None)
    IN IF r.exc # NoExc
       THEN GenStep(r.exc, Raise(g), <<>>)
       ELSE LET d == Delegate(self, [g EXCEPT !.backmapper = r.ret])
            IN IF d.exc # NoExc THEN d ELSE LoopTurn(self, d.gen)

\* self after a pull: the body's one call on the registry is the
\* get_backmapper of line 138, in the first pull.
Resolved(self, g) ==
    IF g.pc = "created" /\ g.backmapper # None
    THEN get_backmapper(self, g.backmapper).self
    ELSE self

\* generate_trajectories is a generator function (the yield of line 142):
\* a StopIteration that leaves its body as an exception, and not by the
\* body returning, reaches the caller of next() as this RuntimeError.
GeneratorRaisedStopIteration == "RuntimeError: generator raised StopIteration"

\* Faulty variant: a StopIteration raised in the body is passed on as it is.
next_unconverted(self, g) ==
    CASE g.pc = "created" -> Start(self, g)
      [] g.pc = "suspended" -> LoopTurn(self, g)
      [] OTHER -> GenStep("StopIteration", g, <<>>)

\* next(gen): run the generator to its next yield.
next(self, g) ==
    LET r == CASE g.pc = "created" -> Start(self, g)
               [] g.pc = "suspended" -> LoopTurn(self, g)
               [] OTHER -> GenStep("StopIteration", g, <<>>)
    IN IF r.exc = "StopIteration" /\ r.gen.pc = "raised" /\ g.pc # "raised"
       THEN [r EXCEPT !.exc = GeneratorRaisedStopIteration]
       ELSE r

\* generate_trajectory, lines 144-156.
\* Faulty variant: the backmapper argument is not passed on.
generate_trajectory_default(self, length, initial_state, backmapper) ==
    LET c == generate_trajectories(self, length, <<initial_state>>, "default")
    IN IF c.exc # NoExc THEN c ELSE next(self, c.gen)

\* Faulty variant: next(it, None), an absent value instead of the failure.
generate_trajectory_or_none(self, length, initial_state, backmapper) ==
    LET c == generate_trajectories(self, length, <<initial_state>>, backmapper)
        r == IF c.exc # NoExc THEN c ELSE next(self, c.gen)
    IN IF r.exc = "StopIteration" THEN GenStep(NoExc, r.gen, <<>>) ELSE r

\* The code.
generate_trajectory(self, length, initial_state, backmapper) ==
    LET c == generate_trajectories(self, length, <<initial_state>>, backmapper)
    IN IF c.exc # NoExc THEN c ELSE next(self, c.gen)

----------------------------------------------------------------------------
(* _SerializableMixin: pickle-based persistence.                           *)

\* pickle writes a function or a class by reference: the qualified name
\* under which an import finds it.  A lambda's name is "<lambda>".
QualName(f) ==
    CASE f = "reverse" -> "fixtures.reverse"
      [] f = "shift" -> "fixtures.shift"
      [] OTHER -> "fixtures.<lambda>"

\* The names an import of the module resolves, and what they resolve to.
Importable == {"fixtures.reverse", "fixtures.shift"}
Resolve(q) == CHOOSE f \in Fns : QualName(f) = q

\* Byte strings: no bytes at all (a value not yet produced, a file that
\* does not exist), the empty byte string, or a pickle of an object: its
\* class by reference and its __dict__ with each function by reference.
NoBytes == [kind |-> "none", cls |-> None, state |-> EmptyDict]
EmptyBytes == [kind |-> "empty", cls |-> None, state |-> EmptyDict]

\* An object: its class and its _backmappers; NoObj is "no object".
NoObj == [cls |-> None, backmappers |-> EmptyDict]

Pickled(e, b) == [exc |-> e, bytes |-> b]
Loaded(e, o) == [exc |-> e, obj |-> o]

pickle_dumps(obj) ==
    IF \E n \in DOMAIN obj.backmappers : QualName(obj.backmappers[n]) \notin Importable
    THEN Pickled("PicklingError", NoBytes)
    ELSE Pickled(NoExc, [kind |-> "pickle", cls |-> obj.cls,
                         state |-> [n \in DOMAIN obj.backmappers |->
                                       QualName(obj.backmappers[n])]])

\* pickle.loads builds the object from its class and restores its
\* __dict__; it does not run __init__.
pickle_loads(bytes) ==
    IF bytes.kind # "pickle"
    THEN Loaded("EOFError", NoObj)
    ELSE Loaded(NoExc, [cls |-> bytes.cls,
                        backmappers |-> [n \in DOMAIN bytes.state |->
                                            Resolve(bytes.state[n])]])

\* serialize, lines 23-32.
\* Faulty variant: the registry is left out of the pickle.
serialize_fresh(self) == pickle_dumps([self EXCEPT !.backmappers = EmptyDict])

serialize(self) == pickle_dumps(self)

\* deserialize, lines 34-52.
\* Faulty variant: no isinstance check.
deserialize_unchecked(cls, serialized) == pickle_loads(serialized)

deserialize(cls, serialized) ==
    LET l == pickle_loads(serialized)
    IN IF l.exc # NoExc THEN l
       ELSE IF ~isinstance(l.obj, cls) THEN Loaded("TypeError", NoObj)
       ELSE l

\* The file system: the content of each path, NoBytes for a path that
\* does not exist.
Paths == {"model.pkl"}

Saved(e, f) == [exc |-> e, fs |-> f]

\* save, lines 54-64: open(file, 'wb') creates or truncates the file, then
\* self.serialize() runs, then its bytes are written.
save(self, file, fs) ==
    LET opened == [fs EXCEPT ![file] = EmptyBytes]
        p == serialize(self)
    IN IF p.exc # NoExc
       THEN Saved(p.exc, opened)
       ELSE Saved(NoExc, [opened EXCEPT ![file] = p.bytes])

\* load, lines 66-82.
\* Faulty variant: load unpickles the file itself, without deserialize.
load_unchecked(cls, file, fs) ==
    IF fs[file].kind = "none"
    THEN Loaded("FileNotFoundError", NoObj)
    ELSE pickle_loads(fs[file])

load(cls, file, fs) ==
    IF fs[file].kind = "none"
    THEN Loaded("FileNotFoundError", NoObj)
    ELSE deserialize(cls, fs[file])

----------------------------------------------------------------------------
(* The state.                                                              *)

VARIABLES
    m,        \* the model instance: its class and its _backmappers
    gen,      \* the generator the caller holds from generate_trajectories
    out,      \* the trajectories the caller has received from gen, in order
    payload,  \* the byte string the caller holds
    files,    \* the file system
    last,     \* the last call: its name, arguments and outcome
    peer      \* a second instance, or NoPeer

vars == <<m, gen, out, payload, files, last, peer>>

\* A call record.  name: the backmapper name or class argument; exc: the
\* exception raised; fn: the function argument; length, s: the generation
\* arguments; file: the path argument; ret: the function returned; traj:
\* the trajectory returned or yielded; obj: the object returned.
Call(op, name, exc) ==
    [op |-> op, name |-> name, exc |-> exc, fn |-> None, length |-> 0, s |-> 0,
     file |-> None, ret |-> None, traj |-> <<>>, obj |-> NoObj]

\* The lengths requested: an empty trajectory and a two-step one.
Lengths == {0, 2}
BackmapperArgs == Names \cup {None}

Init ==
    /\ \E c \in ModelClasses, d \in Fns \cup {None} :
          /\ m = init(c, d)
          /\ last = [Call("init", c, NoExc) EXCEPT !.fn = d]
    /\ gen = NoGen
    /\ out = <<>>
    /\ payload = NoBytes
    /\ files = [p \in Paths |-> NoBytes]
    /\ peer = NoPeer

----------------------------------------------------------------------------
(* Registry calls.                                                         *)

AddBackmapper(f, n) ==
    LET r == add_backmapper(m, f, n)
    IN /\ m' = r.self
       /\ last' = [Call("add_backmapper", n, r.exc) EXCEPT !.fn = f]
       /\ peer' = Mirror(peer, m')
       /\ UNCHANGED <<gen, out, payload, files>>

SetDefaultBackmapper(f) ==
    LET r == default_backmapper_set(m, f)
    IN /\ m' = r.self
       /\ last' = [Call("default_backmapper_set", "default", r.exc) EXCEPT !.fn = f]
       /\ peer' = Mirror(peer, m')
       /\ UNCHANGED <<gen, out, payload, files>>

RemoveBackmapper(n) ==
    LET r == remove_backmapper(m, n)
    IN /\ m' = r.self
       /\ last' = Call("remove_backmapper", n, r.exc)
       /\ peer' = Mirror(peer, m')
       /\ UNCHANGED <<gen, out, payload, files>>

GetBackmapper(n) ==
    LET r == get_backmapper(m, n)
    IN /\ m' = r.self
       /\ last' = [Call("get_backmapper", n, r.exc) EXCEPT !.ret = r.ret]
       /\ peer' = Mirror(peer, m')
       /\ UNCHANGED <<gen, out, payload, files>>

GetDefaultBackmapper ==
    LET r == default_backmapper_get(m)
    IN /\ m' = r.self
       /\ last' = [Call("default_backmapper_get", "default", r.exc) EXCEPT !.ret = r.ret]
       /\ peer' = Mirror(peer, m')
       /\ UNCHANGED <<gen, out, payload, files>>

----------------------------------------------------------------------------
(* Generation calls.                                                       *)

\* it = m.generate_trajectories(length, initial_states, backmapper=b)
\* A behaviour follows one iterator: a later call would start from NewGen
\* again, on a registry that is reachable before the first call too.
GenerateTrajectories(length, initial_states, b) ==
    /\ gen.pc = "none"
    /\ LET r == generate_trajectories(m, length, initial_states, b)
       IN /\ gen' = IF r.exc = NoExc THEN r.gen ELSE NoGen
          /\ out' = <<>>
          /\ last' = [Call("generate_trajectories", b, r.exc) EXCEPT !.length = length]
    /\ UNCHANGED <<m, peer, payload, files>>

\* next(it)
Next_ ==
    /\ gen.pc # "none"
    /\ LET r == next(m, gen)
       IN /\ gen' = r.gen
          /\ out' = IF r.exc = NoExc THEN Append(out, r.ret) ELSE out
          /\ last' = [Call("next", gen.requested, r.exc) EXCEPT !.traj = r.ret]
    /\ m' = Resolved(m, gen)
    /\ peer' = Mirror(peer, m')
    /\ UNCHANGED <<payload, files>>

\* m.generate_trajectory(length, s, backmapper=b)
GenerateTrajectory(length, s, b) ==
    LET r == generate_trajectory(m, length, s, b)
    IN /\ last' = [Call("generate_trajectory", b, r.exc) EXCEPT
                      !.length = length, !.s = s, !.traj = r.ret]
       /\ m' = Resolved(m, NewGen(length, <<s>>, b))
       /\ peer' = Mirror(peer, m')
       /\ UNCHANGED <<gen, out, payload, files>>

----------------------------------------------------------------------------
(* Persistence calls.                                                      *)

\* payload = m.serialize()
Serialize ==
    LET r == serialize(m)
    IN /\ payload' = IF r.exc = NoExc THEN r.bytes ELSE payload
       /\ last' = Call("serialize", m.cls, r.exc)
       /\ UNCHANGED <<m, peer, gen, out, files>>

\* The caller obtains the bytes of a pickled instance of a class that is
\* unrelated to SynDModel.
ForeignPayload ==
    /\ payload' = pickle_dumps([cls |-> "Unrelated", backmappers |-> EmptyDict]).bytes
    /\ last' = Call("foreign", "Unrelated", NoExc)
    /\ UNCHANGED <<m, peer, gen, out, files>>

\* cls.deserialize(payload)
Deserialize(cls) ==
    /\ payload.kind # "none"
    /\ LET r == deserialize(cls, payload)
       IN last' = [Call("deserialize", cls, r.exc) EXCEPT !.obj = r.obj]
    /\ UNCHANGED <<m, peer, gen, out, payload, files>>

\* m.save(file)
Save(file) ==
    LET r == save(m, file, files)
    IN /\ files' = r.fs
       /\ last' = [Call("save", m.cls, r.exc) EXCEPT !.file = file]
       /\ UNCHANGED <<m, peer, gen, out, payload>>

\* cls.load(file)
Load(cls, file) ==
    LET r == load(cls, file, files)
    IN /\ last' = [Call("load", cls, r.exc) EXCEPT !.file = file, !.obj = r.obj]
       /\ UNCHANGED <<m, peer, gen, out, payload, files>>

----------------------------------------------------------------------------
(* Calls that make and use a second instance.                              *)

\* The classes the two instances are constructed from.
PeerClasses == {"LazyModel", "EagerModel"}

\* peer = c(default_backmapper=d)
PeerInit(c, d) ==
    /\ peer = NoPeer
    /\ peer' = new_instance(c, d, m)
    /\ last' = [Call("peer.init", c, NoExc) EXCEPT !.fn = d]
    /\ UNCHANGED <<m, gen, out, payload, files>>

\* peer = type(m).deserialize(m.serialize()): pickle.loads builds the
\* object and its dict anew from the bytes.
PeerDeserialize ==
    /\ peer = NoPeer
    /\ LET b == serialize(m)
           r == IF b.exc = NoExc THEN deserialize(m.cls, b.bytes)
                ELSE Loaded(b.exc, NoObj)
       IN /\ peer' = IF r.exc = NoExc
                     THEN [cls |-> r.obj.cls, backmappers |-> r.obj.backmappers,
                           shares |-> FALSE, from |-> "deserialize"]
                     ELSE NoPeer
          /\ last' = [Call("peer.deserialize", m.cls, r.exc) EXCEPT !.obj = r.obj]
    /\ UNCHANGED <<m, gen, out, payload, files>>

\* m.save(file); peer = type(m).load(file)
PeerLoad(file) ==
    /\ peer = NoPeer
    /\ LET w == save(m, file, files)
           r == IF w.exc = NoExc THEN load(m.cls, file, w.fs)
                ELSE Loaded(w.exc, NoObj)
       IN /\ files' = w.fs
          /\ peer' = IF r.exc = NoExc
                     THEN [cls |-> r.obj.cls, backmappers |-> r.obj.backmappers,
                           shares |-> FALSE, from |-> "load"]
                     ELSE NoPeer
          /\ last' = [Call("peer.load", m.cls, r.exc) EXCEPT
                         !.file = file, !.obj = r.obj]
    /\ UNCHANGED <<m, gen, out, payload>>

\* What a registry call on the second instance does to the first.
Mirrored(self, p) ==
    IF p.shares THEN [self EXCEPT !.backmappers = p.backmappers] ELSE self

\* peer.add_backmapper(f, n)
PeerAddBackmapper(f, n) ==
    /\ peer # NoPeer
    /\ LET r == add_backmapper(peer, f, n)
       IN /\ peer' = r.self
          /\ last' = [Call("peer.add_backmapper", n, r.exc) EXCEPT !.fn = f]
    /\ m' = Mirrored(m, peer')
    /\ UNCHANGED <<gen, out, payload, files>>

\* peer.default_backmapper = f
PeerSetDefaultBackmapper(f) ==
    /\ peer # NoPeer
    /\ LET r == default_backmapper_set(peer, f)
       IN /\ peer' = r.self
          /\ last' = [Call("peer.default_backmapper_set", "default", r.exc)
                         EXCEPT !.fn = f]
    /\ m' = Mirrored(m, peer')
    /\ UNCHANGED <<gen, out, payload, files>>

\* peer.remove_backmapper(n)
PeerRemoveBackmapper(n) ==
    /\ peer # NoPeer
    /\ LET r == remove_backmapper(peer, n)
       IN /\ peer' = r.self
          /\ last' = Call("peer.remove_backmapper", n, r.exc)
    /\ m' = Mirrored(m, peer')
    /\ UNCHANGED <<gen, out, payload, files>>

----------------------------------------------------------------------------
(* Specifications.                                                         *)

RegistryNext ==
    \/ \E f \in Fns, n \in Names : AddBackmapper(f, n)
    \/ \E f \in Fns : SetDefaultBackmapper(f)
    \/ \E n \in Names : RemoveBackmapper(n)
    \/ \E n \in Names : GetBackmapper(n)
    \/ GetDefaultBackmapper

PipelineNext ==
    \/ \E f \in Fns, n \in Names : AddBackmapper(f, n)
    \/ \E n \in Names : RemoveBackmapper(n)
    \/ \E length \in Lengths, initial_states \in SeqsUpTo(SysStates, MaxStates),
          b \in BackmapperArgs : GenerateTrajectories(length, initial_states, b)
    \/ Next_

SingleNext ==
    \/ \E f \in Fns, n \in Names : AddBackmapper(f, n)
    \/ \E n \in Names : RemoveBackmapper(n)
    \/ \E length \in Lengths, s \in SysStates, b \in BackmapperArgs :
          GenerateTrajectory(length, s, b)

SerializeNext ==
    \/ \E f \in Fns, n \in Names : AddBackmapper(f, n)
    \/ \E n \in Names : RemoveBackmapper(n)
    \/ Serialize
    \/ ForeignPayload
    \/ \E c \in AllClasses : Deserialize(c)

FilesNext ==
    \/ \E f \in Fns, n \in Names : AddBackmapper(f, n)
    \/ \E n \in Names : RemoveBackmapper(n)
    \/ \E p \in Paths : Save(p)
    \/ \E c \in AllClasses, p \in Paths : Load(c, p)

\* Two instances: registry calls on each, the second one constructed or
\* obtained as a copy of the first.
InstancesNext ==
    \/ \E f \in Fns, n \in Names : AddBackmapper(f, n)
    \/ \E f \in Fns : SetDefaultBackmapper(f)
    \/ \E n \in Names : RemoveBackmapper(n)
    \/ \E c \in PeerClasses, d \in Fns \cup {None} : PeerInit(c, d)
    \/ PeerDeserialize
    \/ \E p \in Paths : PeerLoad(p)
    \/ \E f \in Fns, n \in Names : PeerAddBackmapper(f, n)
    \/ \E f \in Fns : PeerSetDefaultBackmapper(f)
    \/ \E n \in Names : PeerRemoveBackmapper(n)

Next == RegistryNext \/ PipelineNext \/ SingleNext \/ SerializeNext \/ FilesNext

\* Every operation on one instance.  A behaviour uses the registry together
\* with one more concern: reads and single results, one iteration, byte
\* strings, or files; the first call of a concern commits the behaviour to it.
GenIdle == gen.pc = "none"
BytesIdle == payload.kind = "none"
FilesIdle == \A p \in Paths : files[p].kind = "none"

Uncommitted == GenIdle /\ BytesIdle /\ FilesIdle

EveryNext ==
    \/ \E f \in Fns, n \in Names : AddBackmapper(f, n)
    \/ \E n \in Names : RemoveBackmapper(n)
    \/ \E f \in Fns : Uncommitted /\ SetDefaultBackmapper(f)
    \/ \E n \in Names : Uncommitted /\ GetBackmapper(n)
    \/ Uncommitted /\ GetDefaultBackmapper
    \/ \E length \in Lengths, s \in SysStates, b \in BackmapperArgs :
          Uncommitted /\ GenerateTrajectory(length, s, b)
    \/ \E length \in Lengths, initial_states \in SeqsUpTo(SysStates, MaxStates),
          b \in BackmapperArgs :
          BytesIdle /\ FilesIdle /\ GenerateTrajectories(length, initial_states, b)
    \/ BytesIdle /\ FilesIdle /\ Next_
    \/ GenIdle /\ FilesIdle /\ Serialize
    \/ GenIdle /\ FilesIdle /\ ForeignPayload
    \/ \E c \in AllClasses : GenIdle /\ FilesIdle /\ Deserialize(c)
    \/ \E p \in Paths : GenIdle /\ BytesIdle /\ Save(p)
    \/ \E c \in AllClasses, p \in Paths : GenIdle /\ BytesIdle /\ Load(c, p)

Spec == Init /\ [][Next]_vars
SpecRegistry == Init /\ [][RegistryNext]_vars
SpecPipeline == Init /\ [][PipelineNext]_vars
SpecSingle == Init /\ [][SingleNext]_vars
SpecSerialize == Init /\ [][SerializeNext]_vars
SpecFiles == Init /\ [][FilesNext]_vars
SpecEvery == Init /\ [][EveryNext]_vars
InstancesInit == Init /\ m.cls \in PeerClasses
SpecInstances == InstancesInit /\ [][InstancesNext]_vars

----------------------------------------------------------------------------
(* Properties of the registry.                                             *)

\* C1: add_backmapper with a name that is already registered raises
\* ValueError, remove_backmapper with a name that is not registered raises
\* ValueError, and either failed call leaves the model as it was: the same
\* names, each bound to the same function.
C1_FailedCallLeavesRegistry ==
    [][/\ (last'.op = "add_backmapper" /\ last'.name \in DOMAIN m.backmappers)
            => (last'.exc = "ValueError" /\ m' = m)
       /\ (last'.op = "remove_backmapper" /\ last'.name \notin DOMAIN m.backmappers)
            => (last'.exc = "ValueError" /\ m' = m)]_vars

\* An add under a taken name, with another function than the one
\* registered, was refused and the entry is still the old one.
C1_Witness ==
    /\ last.op = "add_backmapper"
    /\ last.exc = "ValueError"
    /\ last.name \in DOMAIN m.backmappers
    /\ m.backmappers[last.name] # last.fn

\* What the default_backmapper property reads on an object.
DefaultOf(self) == default_backmapper_get(self).ret

IsAddDefault(c) ==
    /\ c.op \in {"add_backmapper", "default_backmapper_set"}
    /\ c.name = "default"

\* C2: default wiring.  A model constructed with default backmapper f reads
\* f as default_backmapper; while a default is registered,
\* add_backmapper(f2, "default") and the assignment default_backmapper = f2
\* raise ValueError and the default read stays what it was;
\* remove_backmapper("default") then succeeds and the default reads None;
\* and with no default registered, add_backmapper(f2, "default") succeeds
\* and the default reads f2.
C2_DefaultWiring ==
    /\ [](last.op = "init" => DefaultOf(m) = last.fn)
    /\ [][/\ (IsAddDefault(last') /\ DefaultOf(m) # None)
               => (last'.exc = "ValueError" /\ DefaultOf(m') = DefaultOf(m))
          /\ (last'.op = "remove_backmapper" /\ last'.name = "default"
                /\ DefaultOf(m) # None)
               => (last'.exc = NoExc /\ DefaultOf(m') = None)
          /\ (IsAddDefault(last') /\ DefaultOf(m) = None)
               => (last'.exc = NoExc /\ DefaultOf(m') = last'.fn)]_vars

\* An assignment default_backmapper = f2 on a model that has a default
\* was refused, and the default still reads the earlier function.
C2_Witness ==
    /\ last.op = "default_backmapper_set"
    /\ last.exc = "ValueError"
    /\ DefaultOf(m) # None
    /\ DefaultOf(m) # last.fn

----------------------------------------------------------------------------
(* Properties of the pipeline.                                             *)

\* The raw items the concrete model of m produces for the call behind g.
RawOf(g) == RawItems(m.cls, g.length, g.initial_states)

\* A trajectory as the pipeline hands it on under backmapper f (None: raw).
Mapped(f, t) == IF f = None THEN t ELSE Apply(f, t).ret

\* C3: pipeline composition.  When the iteration of generate_trajectories
\* has run to completion over the raw trajectories T1..Tn of the concrete
\* model, the caller has received exactly f(T1), ..., f(Tn) in that order,
\* f being the function registered under the requested name when the
\* iteration started; with backmapper=None the caller has received
\* T1, ..., Tn unchanged and no function was applied.
C3_PipelineComposition ==
    /\ [](gen.pc = "exhausted" =>
            /\ Len(out) = Len(RawOf(gen))
            /\ \A i \in 1..Len(out) :
                  out[i] = IF gen.requested = None
                           THEN RawOf(gen)[i].ret
                           ELSE Apply(gen.backmapper, RawOf(gen)[i].ret).ret
            /\ (gen.requested = None => gen.mapcalls = 0 /\ gen.backmapper = None))
    /\ [][(gen.pc = "created" /\ last'.op = "next"
             /\ gen.requested \in DOMAIN m.backmappers)
            => gen'.backmapper = m.backmappers[gen.requested]]_vars

\* A completed iteration over two raw trajectories whose mapping changed
\* them.
C3_Witness ==
    /\ gen.pc = "exhausted"
    /\ gen.requested # None
    /\ Len(out) = 2
    /\ out[1] # RawOf(gen)[1].ret
    /\ out[1] # out[2]

\* A concrete model that honours the contract of
\* generate_unmapped_trajectories: one raw trajectory per initial state.
Conforms(c) ==
    \A length \in Lengths, s \in SysStates :
        RawFor(c, length, s) = <<Result(NoExc, Traj(s, length))>>

\* C4: order preservation.  With a concrete model that produces one raw
\* trajectory per initial state, a completed iteration has yielded exactly
\* as many trajectories as there are initial states, the i-th one derived
\* from the i-th initial state, with or without a backmapper.
C4_OrderPreservation ==
    (gen.pc = "exhausted" /\ Conforms(m.cls)) =>
        /\ Len(out) = Len(gen.initial_states)
        /\ \A i \in 1..Len(gen.initial_states) :
              out[i] = Mapped(gen.backmapper, Traj(gen.initial_states[i], gen.length))

\* A completed iteration over two different initial states.
C4_Witness ==
    /\ gen.pc = "exhausted"
    /\ Conforms(m.cls)
    /\ Len(gen.initial_states) = 2
    /\ gen.initial_states[1] # gen.initial_states[2]
    /\ gen.length > 0
    /\ Len(out) = 2

\* C9: resolution precedes delegation.  The first next() of an iteration
\* whose requested name is not registered raises ValueError before
\* generate_unmapped_trajectories is called and before anything is
\* yielded; the generator is then finished, so nothing is yielded later
\* either.
C9_ResolutionPrecedesDelegation ==
    [][/\ (gen.pc = "created" /\ last'.op = "next" /\ gen.requested # None
             /\ gen.requested \notin DOMAIN m.backmappers)
            => /\ last'.exc = "ValueError"
               /\ gen'.pc = "raised"
               /\ ~gen'.invoked
               /\ gen'.made = 0
               /\ gen'.mapcalls = 0
               /\ out' = <<>>
       /\ (gen.pc = "raised" /\ last'.op = "next")
            => (last'.exc = "StopIteration" /\ out' = out /\ gen' = gen)]_vars

\* The default name was requested on a model with no default, and the
\* first next() raised ValueError.
C9_Witness ==
    /\ last.op = "next"
    /\ last.exc = "ValueError"
    /\ gen.requested = "default"
    /\ gen.initial_states # <<>>
    /\ ~gen.invoked

\* C10: late, one-shot binding.  The call generate_trajectories only
\* creates the iterator.  The name is resolved at the first next(), against
\* the registry of that moment: ValueError if the name is absent then, the
\* function registered then otherwise.  From then on the function of the
\* iteration never changes, whatever is added or removed, every later
\* yield is that function applied to the next raw trajectory, and no later
\* next() raises ValueError.
C10_LateOneShotBinding ==
    [][/\ last'.op = "generate_trajectories"
            => /\ last'.exc = NoExc
               /\ gen'.pc = "created"
               /\ gen'.backmapper = gen'.requested
               /\ ~gen'.invoked
       /\ (gen.pc = "created" /\ last'.op = "next" /\ gen.requested # None)
            => IF gen.requested \in DOMAIN m.backmappers
               THEN /\ last'.exc # "ValueError"
                    /\ gen'.backmapper = m.backmappers[gen.requested]
               ELSE last'.exc = "ValueError"
       /\ (gen.pc = "suspended" /\ gen'.pc # "none")
            => /\ gen'.backmapper = gen.backmapper
               /\ last'.op = "next"
                    => /\ last'.exc # "ValueError"
                       /\ last'.exc = NoExc
                            => last'.traj = Mapped(gen.backmapper,
                                                   RawOf(gen)[gen.pos + 1].ret)]_vars

\* After the first yield the requested name was removed from the registry
\* (or bound to another function), and a later next() still yielded a
\* trajectory mapped by the function bound at the first next().
C10_Witness ==
    /\ last.op = "next"
    /\ last.exc = NoExc
    /\ gen.pos = 2
    /\ gen.requested # None
    /\ DictGet(m.backmappers, gen.requested) # gen.backmapper
    /\ last.traj # RawOf(gen)[2].ret

\* list(it): the trajectories an iterator yields until it ends, and the
\* exception that ended it (NoExc when it was exhausted).
RECURSIVE Drain(_, _, _)
Drain(self, g, acc) ==
    LET r == next(self, g)
    IN IF r.exc = NoExc THEN Drain(self, r.gen, Append(acc, r.ret))
       ELSE [exc |-> IF r.exc = "StopIteration" THEN NoExc ELSE r.exc,
             out |-> acc]

\* C5: single-result convenience.  generate_trajectory(L, s, backmapper=b)
\* returns the first element that generate_trajectories(L, [s],
\* backmapper=b) yields: the raw trajectory of [s] mapped by the function
\* registered under b, or the raw trajectory itself when b is None; and
\* when b is not registered it raises the ValueError that the first next()
\* of that iteration raises.
C5_SingleResult ==
    last.op = "generate_trajectory" =>
        LET it == generate_trajectories(m, last.length, <<last.s>>, last.name).gen
            all == Drain(m, it, <<>>)
            raw == RawItems(m.cls, last.length, <<last.s>>)
        IN /\ all.out # <<>> =>
                /\ last.exc = NoExc
                /\ last.traj = all.out[1]
                /\ last.traj = IF last.name = None
                               THEN raw[1].ret
                               ELSE Apply(m.backmappers[last.name], raw[1].ret).ret
           /\ (last.name # None /\ last.name \notin DOMAIN m.backmappers) =>
                /\ last.exc = "ValueError"
                /\ next(m, it).exc = "ValueError"

\* generate_trajectory under a name other than "default" returned a mapped
\* trajectory that differs from the raw one and from what the default
\* backmapper gives.
C5_Witness ==
    /\ last.op = "generate_trajectory"
    /\ last.exc = NoExc
    /\ last.name = "alt"
    /\ last.traj # Traj(last.s, last.length)
    /\ "default" \in DOMAIN m.backmappers
    /\ last.traj # Apply(m.backmappers["default"], Traj(last.s, last.length)).ret

----------------------------------------------------------------------------
(* Properties of persistence.                                              *)

\* C6: the type guard of deserialize.  C.deserialize(payload) raises
\* TypeError whenever the object rebuilt from the payload is not an
\* instance of C, returns that object when it is an instance of C (of C
\* itself or of a subclass), and never returns an object that is not an
\* instance of C.
C6_DeserializeTypeGuard ==
    last.op = "deserialize" =>
        LET o == pickle_loads(payload)
        IN /\ (o.exc = NoExc /\ last.name \notin Bases(o.obj.cls))
                => (last.exc = "TypeError" /\ last.obj = NoObj)
           /\ (o.exc = NoExc /\ last.name \in Bases(o.obj.cls))
                => (last.exc = NoExc /\ last.obj = o.obj)
           /\ last.exc = NoExc => last.name \in Bases(last.obj.cls)

\* A payload serialized from a model was refused by a sibling model class.
C6_Witness ==
    /\ last.op = "deserialize"
    /\ last.exc = "TypeError"
    /\ last.name \in ModelClasses
    /\ payload.cls \in ModelClasses

\* Every function registered on the object can be pickled: an import finds
\* it under its qualified name.
Picklable(self) ==
    \A n \in DOMAIN self.backmappers : QualName(self.backmappers[n]) \in Importable

\* type(m).deserialize(payload) gives an object of m's class with m's
\* registry: the same names, each bound to the same function.
RoundTrips(bytes) ==
    LET r == deserialize(m.cls, bytes)
    IN /\ r.exc = NoExc
       /\ r.obj.cls = m.cls
       /\ DOMAIN r.obj.backmappers = DOMAIN m.backmappers
       /\ \A n \in DOMAIN m.backmappers : r.obj.backmappers[n] = m.backmappers[n]

\* C7 as stated: for any registry reached by adds and removes,
\* m.serialize() succeeds and type(m).deserialize of its bytes gives an
\* object of the same class with the same registry.
C7_RoundTripAnyRegistry ==
    last.op = "serialize" => (last.exc = NoExc /\ RoundTrips(payload))

\* C7, amended: when every registered function can be pickled,
\* m.serialize() succeeds and type(m).deserialize of its bytes succeeds
\* without TypeError and gives an object of the same class with the same
\* registry; otherwise m.serialize() raises PicklingError.  serialize
\* leaves m unchanged either way.
C7_RoundTripPicklable ==
    /\ [](last.op = "serialize" =>
            IF Picklable(m)
            THEN last.exc = NoExc /\ RoundTrips(payload)
            ELSE last.exc = "PicklingError")
    /\ [][last'.op = "serialize" => m' = m]_vars

\* A model with two registered backmappers was serialized.
C7_Witness ==
    /\ last.op = "serialize"
    /\ last.exc = NoExc
    /\ DOMAIN m.backmappers = Names
    /\ m.backmappers["default"] # m.backmappers["alt"]

\* What a load of class m.cls from the file of the last call would give.
Reload == load(m.cls, last.file, files)

SameAsModel(r) ==
    /\ r.exc = NoExc
    /\ r.obj.cls = m.cls
    /\ DOMAIN r.obj.backmappers = DOMAIN m.backmappers
    /\ \A n \in DOMAIN m.backmappers : r.obj.backmappers[n] = m.backmappers[n]

\* load(C, path) on an existing file does what C.deserialize does on the
\* file's bytes, type check included.
LoadChecksType ==
    (last.op = "load" /\ files[last.file].kind = "pickle") =>
        IF last.name \in Bases(files[last.file].cls)
        THEN last.exc = NoExc /\ last.obj = pickle_loads(files[last.file]).obj
        ELSE last.exc = "TypeError" /\ last.obj = NoObj

\* C8 as stated: m.save(path) writes exactly the bytes of m.serialize() to
\* path, a following type(m).load(path) returns an object of the same
\* class with m's registry, and load applies the type check of
\* deserialize.
C8_SaveLoadAnyRegistry ==
    /\ last.op = "save" =>
          /\ serialize(m).exc = NoExc
          /\ files[last.file] = serialize(m).bytes
          /\ SameAsModel(Reload)
    /\ LoadChecksType

\* C8, amended: when every registered function can be pickled, m.save(path)
\* writes exactly the bytes of m.serialize() to path and a following
\* type(m).load(path) returns an object of the same class with m's
\* registry; otherwise save raises the PicklingError of serialize and
\* leaves path empty, and a following load raises EOFError.  load applies
\* the type check of deserialize.
C8_SaveLoadPicklable ==
    /\ last.op = "save" =>
          IF Picklable(m)
          THEN /\ last.exc = NoExc
               /\ files[last.file] = serialize(m).bytes
               /\ SameAsModel(Reload)
          ELSE /\ last.exc = "PicklingError"
               /\ files[last.file] = EmptyBytes
               /\ Reload.exc = "EOFError"
    /\ LoadChecksType

\* A model with a registered backmapper was saved, and the load of its own
\* class returned an object with the same registry.
C8_Witness ==
    /\ last.op = "load"
    /\ last.exc = NoExc
    /\ last.name = m.cls
    /\ m.backmappers # EmptyDict
    /\ last.obj = m

----------------------------------------------------------------------------
(* Properties of the pipeline's laziness and of its failures.              *)

\* C11: lazy single-pass interleaving.  With a concrete model whose raw
\* generation is lazy, the pipeline requests a raw trajectory only inside
\* a next() of the consumer, one per next(); whenever the iteration is
\* suspended the concrete model has computed exactly as many raw
\* trajectories as the consumer has received, and the backmapper has been
\* called exactly that often; so at most one trajectory is in the pipeline
\* at a time, and an iteration that is abandoned has neither generated nor
\* mapped a trajectory that was not requested.
C11_LazyInterleaving ==
    /\ [](~IsEager(m.cls) =>
            /\ gen.pc \in {"none", "created"}
                 => (gen.made = 0 /\ gen.mapcalls = 0 /\ ~gen.invoked)
            /\ gen.pc \in {"suspended", "exhausted"}
                 => /\ gen.made = Len(out)
                    /\ gen.pos = Len(out)
                    /\ gen.mapcalls = IF gen.requested = None THEN 0 ELSE Len(out)
            /\ gen.made <= Len(out) + 1
            /\ gen.mapcalls <= Len(out) + 1)
    /\ [][~IsEager(m.cls) =>
            /\ gen'.made # gen.made
                 => (last'.op = "next" /\ gen'.made = gen.made + 1)
            /\ gen'.mapcalls # gen.mapcalls
                 => (last'.op = "next" /\ gen'.mapcalls = gen.mapcalls + 1)]_vars

\* A lazy model was asked for two trajectories under a backmapper; the
\* consumer has taken one, and the second has not been generated.
C11_Witness ==
    /\ ~IsEager(m.cls)
    /\ gen.pc = "suspended"
    /\ gen.requested # None
    /\ Len(RawOf(gen)) = 2
    /\ Len(out) = 1
    /\ gen.made = 1
    /\ gen.mapcalls = 1

\* C14: exhausted generator.  When the backmapper argument is None or a
\* registered name and the concrete model produces no raw trajectory for
\* the initial state, generate_trajectory raises StopIteration; it does not
\* return a value.
C14_ExhaustedGenerator ==
    (/\ last.op = "generate_trajectory"
     /\ last.name \in DOMAIN m.backmappers \cup {None}
     /\ RawItems(m.cls, last.length, <<last.s>>) = <<>>)
        => last.exc = "StopIteration"

\* The model that skips initial state 0 was asked for the trajectory of
\* state 0 under a registered backmapper and the call raised StopIteration.
C14_Witness ==
    /\ last.op = "generate_trajectory"
    /\ m.cls = "SkipModel"
    /\ last.s = 0
    /\ last.length = 2
    /\ last.name \in DOMAIN m.backmappers
    /\ last.exc = "StopIteration"

\* The function a pull on g maps with: bound already when the iteration is
\* suspended, looked up by the pull itself when it is the first.
FnOf(g) ==
    IF g.pc = "created"
    THEN IF g.requested = None THEN None ELSE DictGet(m.backmappers, g.requested)
    ELSE g.backmapper

\* The failure that raw generation or the backmapper raises in the pull for
\* result Len(out) + 1 (NoExc when neither fails): an eager concrete model
\* fails inside its call, in the first pull; a lazy one fails when its item
\* is requested; the backmapper fails on the item it is given.
PullFailure ==
    LET items == RawOf(gen)
        k == Len(out) + 1
        f == FnOf(gen)
    IN IF gen.pc = "created" /\ IsEager(m.cls)
          /\ items # <<>> /\ items[Len(items)].exc # NoExc
       THEN items[Len(items)].exc
       ELSE IF k > Len(items) THEN NoExc
       ELSE IF items[k].exc # NoExc THEN items[k].exc
       ELSE IF f # None THEN Apply(f, items[k].ret).exc
       ELSE NoExc

\* The pull is one that runs raw generation or the backmapper: the
\* iteration is live and the requested name resolves.
PullRuns ==
    /\ last'.op = "next"
    /\ gen.pc \in {"created", "suspended"}
    /\ gen.pc = "created" => gen.requested \in DOMAIN m.backmappers \cup {None}

\* What every failing pull does besides delivering the failure: nothing is
\* yielded, the results received stay as they are, the registry stays as it
\* is, and the iteration is over: later pulls run nothing again.
FailedPullFrame ==
    /\ PullRuns /\ PullFailure # NoExc
         => /\ last'.exc # NoExc
            /\ out' = out
            /\ m' = m
            /\ gen'.pc = "raised"
    /\ last'.op = "next" /\ gen.pc = "raised"
         => (last'.exc = "StopIteration" /\ out' = out /\ gen' = gen)

\* C15 as stated: a failure raised by raw generation or by the backmapper
\* while the pipeline produces result i reaches the consumer as the same
\* error at the pull for result i; the results already yielded, the
\* registry and the rest of the iteration are as FailedPullFrame says.
C15_PropagatesUnchanged ==
    [][/\ FailedPullFrame
       /\ PullRuns /\ PullFailure # NoExc => last'.exc = PullFailure]_vars

\* C15, amended: every failure other than StopIteration reaches the
\* consumer as the same error at that pull, and the pull raises nothing
\* that the sources did not raise; a StopIteration raised by the eager call
\* of raw generation or by the backmapper reaches the consumer as the
\* RuntimeError of the generator frame.
C15_PropagatesExceptStopIteration ==
    [][/\ FailedPullFrame
       /\ PullRuns /\ PullFailure \notin {NoExc, "StopIteration"}
            => last'.exc = PullFailure
       /\ PullRuns /\ PullFailure = "StopIteration"
            => last'.exc = GeneratorRaisedStopIteration
       /\ PullRuns /\ PullFailure = NoExc
            => last'.exc \in {NoExc, "StopIteration"}]_vars

\* Under a registered backmapper the consumer received one result, and the
\* pull for the second failed with the error of the lazy concrete model.
C15_Witness ==
    /\ last.op = "next"
    /\ last.exc = "RuntimeError"
    /\ m.cls = "FaultyModel"
    /\ gen.pc = "raised"
    /\ gen.requested # None
    /\ Len(out) = 1
    /\ gen.mapcalls = 1

----------------------------------------------------------------------------
(* Properties of the registry over every operation.                        *)

\* The calls that only read the instance.
ReadingOps ==
    {"get_backmapper", "default_backmapper_get", "generate_trajectories",
     "next", "generate_trajectory", "serialize", "save", "deserialize",
     "load", "foreign"}

\* C12: the registry invariant.  The registry maps each name to one
\* function.  The constructor leaves it empty or, given a default
\* backmapper, holding that function under "default" alone.  A step changes
\* it only as a successful add_backmapper (called directly or by assigning
\* default_backmapper), which adds exactly the one name, absent before, or
\* as a successful remove_backmapper, which deletes exactly the one name,
\* present before; get_backmapper, reading default_backmapper,
\* generate_trajectories and its pulls, generate_trajectory, serialize and
\* save leave it as it is; and a name registered before and after a step
\* is bound to the same function.
C12_RegistryInvariant ==
    /\ [](last.op = "init" =>
            m.backmappers = IF last.fn = None THEN EmptyDict
                            ELSE DictSet(EmptyDict, "default", last.fn))
    /\ [][LET old == m.backmappers
              new == m'.backmappers
              adds == /\ last'.op \in {"add_backmapper", "default_backmapper_set"}
                      /\ last'.exc = NoExc
              removes == last'.op = "remove_backmapper" /\ last'.exc = NoExc
          IN /\ m'.cls = m.cls
             /\ \A n \in DOMAIN old \cap DOMAIN new : new[n] = old[n]
             /\ new # old => (adds \/ removes)
             /\ adds => /\ last'.name \notin DOMAIN old
                        /\ DOMAIN new = DOMAIN old \cup {last'.name}
                        /\ new[last'.name] = last'.fn
             /\ removes => /\ last'.name \in DOMAIN old
                           /\ DOMAIN new = DOMAIN old \ {last'.name}
             /\ last'.op \in ReadingOps => new = old]_vars

\* remove_backmapper deleted one of two registered names and the other is
\* still registered.
C12_Witness ==
    /\ last.op = "remove_backmapper"
    /\ last.exc = NoExc
    /\ DOMAIN m.backmappers = Names \ {last.name}

----------------------------------------------------------------------------
(* Properties of two instances.                                            *)

\* The initial states an observing iteration is run over.
ObservedStates == <<0, 1>>

\* What get_backmapper, default_backmapper and generate_trajectories give
\* on an instance: per name the outcome of the lookup, the default, and per
\* backmapper argument the results of a whole iteration.
Observed(self) ==
    [get |-> [n \in Names |-> LET r == get_backmapper(self, n)
                              IN <<r.exc, r.ret>>],
     default |-> default_backmapper_get(self).ret,
     trajectories |->
        [b \in BackmapperArgs |->
            Drain(self, generate_trajectories(self, 2, ObservedStates, b).gen,
                  <<>>)]]

OnModel == {"add_backmapper", "default_backmapper_set", "remove_backmapper"}
OnPeer == {"peer.add_backmapper", "peer.default_backmapper_set",
           "peer.remove_backmapper"}

\* C13: per-instance registry ownership.  A constructed instance starts
\* with a registry of its own, empty or holding only its own default, and
\* an instance obtained by deserializing or loading has a registry of its
\* own too; add_backmapper, remove_backmapper and assignment to
\* default_backmapper on one of two instances leave everything that
\* get_backmapper, default_backmapper and generate_trajectories give on the
\* other as it was.  (An instance that did not change is observed as
\* before; the observations are compared when it did.)
C13_RegistryOwnership ==
    /\ [](last.op = "peer.init" =>
            /\ ~peer.shares
            /\ peer.backmappers = IF last.fn = None THEN EmptyDict
                                  ELSE DictSet(EmptyDict, "default", last.fn))
    /\ [](last.op \in {"peer.deserialize", "peer.load"} => ~peer.shares)
    /\ [][/\ (peer # NoPeer /\ last'.op \in OnModel /\ peer' # peer)
               => Observed(peer') = Observed(peer)
          /\ (last'.op \in OnPeer /\ m' # m) => Observed(m') = Observed(m)
          /\ (last'.op \in {"peer.init", "peer.deserialize", "peer.load"}
                /\ m' # m)
               => Observed(m') = Observed(m)]_vars

\* The first instance was given a name that its deserialized copy, which
\* has a backmapper of its own, does not have.
C13_Witness ==
    /\ peer.from = "deserialize"
    /\ last.op = "add_backmapper"
    /\ last.exc = NoExc
    /\ last.name \notin DOMAIN peer.backmappers
    /\ peer.backmappers # EmptyDict
    /\ Observed(peer) # Observed(m)

====
